---------------------------- MODULE Spec2Model ----------------------------
(***************************************************************************)
(* PEroxide backend: the scan registry (ScanStore), the upload handler,    *)
(* the detached scan worker (scan_file), the streaming status reader and   *)
(* the result reader.                                                      *)
(*                                                                         *)
(* Threads: the main thread runs the accept loop of main() and therefore   *)
(* one request handler at a time; every accepted upload spawns one worker  *)
(* thread.  All of them share the registry behind one mutex (`lock`).      *)
(* A critical section that is a single registry operation is one atomic    *)
(* action guarded by lock = Free; a critical section that spans several    *)
(* effects (the worker's final insert + remove_file, the read-failure      *)
(* branch, the loop body of the streaming reader) is split so that the     *)
(* states with the lock held are visible.                                  *)
(***************************************************************************)
EXTENDS Integers, Sequences, FiniteSets, TLC

(***************************************************************************)
(* Bounds of the model                                                     *)
(***************************************************************************)
\* number of uploads that are accepted (scan ids are 1..MaxScans)
MaxScans == 2
\* longest findings vector the finalization is applied to in FinalizeSpec
MaxThreats == 4

\* configured size limit of config.rs (scaled to the sample files below)
MAX_FILE_SIZE == 64

Ids == 1..MaxScans
\* ids a client may ask for: 0 is an id the server never generated
QueryIds == 0..MaxScans

\* holders of the registry mutex: a worker holds it under its scan id
Free == -1
MainThread == 0

Terminal == {"safe", "suspicious", "unsafe", "error"}
Severities == {"malicious", "suspicious", "neutral"}

(***************************************************************************)
(* File contents.  A content is described by what the code looks at: its   *)
(* length, whether its first two bytes are "MZ", and which of the          *)
(* indicator substrings it contains.                                       *)
(***************************************************************************)
NoContent == [filename |-> "", len |-> 0, mz |-> FALSE, words |-> {}]

Samples ==
    { [filename |-> "hello.txt", len |-> 5,  mz |-> FALSE, words |-> {}],
      [filename |-> "tool.exe",  len |-> 64, mz |-> TRUE,  words |-> {}],
      [filename |-> "note.txt",  len |-> 7,  mz |-> FALSE, words |-> {"malware"}],
      [filename |-> "inject.exe", len |-> 34, mz |-> TRUE,
       words |-> {"CreateRemoteThread", "VirtualAllocEx"}] }

\* a file one byte over the limit
Oversized == [filename |-> "big.bin", len |-> MAX_FILE_SIZE + 1, mz |-> FALSE, words |-> {}]

\* io::Error texts of a failed fs::read
NotFoundError == "No such file or directory (os error 2)"
DeniedError == "Permission denied (os error 13)"

(***************************************************************************)
(* utils.rs                                                                *)
(***************************************************************************)
\* calculate_sha256: the digest is a function of the bytes alone
calculate_sha256(data) == <<"sha256", data.len, data.mz, data.words>>

RECURSIVE Digits(_)
\* the decimal digits "{}" prints for an unsigned number
Digits(n) ==
    IF n < 10
    THEN <<CASE n = 0 -> "0" [] n = 1 -> "1" [] n = 2 -> "2" [] n = 3 -> "3"
             [] n = 4 -> "4" [] n = 5 -> "5" [] n = 6 -> "6" [] n = 7 -> "7"
             [] n = 8 -> "8" [] n = 9 -> "9">>
    ELSE Digits(n \div 10) \o Digits(n % 10)

\* format!("[{}%] {}", progress, message): a log line is the sequence of its
\* characters; the message text is kept as one token (it holds no '[', '%', ']')
FormatProgress(progress, message) ==
    <<"[">> \o Digits(progress) \o <<"%", "]", " ", message>>

\* format!("Error reading file: {}", e)
FormatReadError(e) == <<"Error reading file: ", e>>

\* "[0%] Initializing scan..."
InitialLog == <<"[", "0", "%", "]", " ", "Initializing scan...">>

(***************************************************************************)
(* indicators.rs                                                           *)
(***************************************************************************)
Threat(type, details, severity, id) ==
    [threat_type |-> type, details |-> details, severity |-> severity, threat_id |-> id]

check_indicators(content) ==
    (IF "malware" \in content.words \/ "virus" \in content.words
     THEN <<Threat("Suspicious String", "File contains suspicious keywords",
                   "suspicious", "S001")>>
     ELSE <<>>)
    \o
    (IF "CreateRemoteThread" \in content.words /\ "VirtualAllocEx" \in content.words
     THEN <<Threat("Process Injection API", "Contains process injection function calls",
                   "malicious", "S002")>>
     ELSE <<>>)
    \o
    (IF "RegSetValue" \in content.words /\ "RegCreateKey" \in content.words
     THEN <<Threat("Registry Modification", "Contains registry manipulation functions",
                   "suspicious", "S003")>>
     ELSE <<>>)

(***************************************************************************)
(* scanner.rs: the pure part of the finalization                           *)
(***************************************************************************)
\* threats.iter().filter(|t| t.severity == sev).count()
CountSeverity(threats, sev) ==
    Cardinality({i \in 1..Len(threats) : threats[i].severity = sev})

VerdictNoNeutral(malicious_count, suspicious_count, neutral_count) ==
    IF malicious_count > 0 THEN "unsafe"
    ELSE IF suspicious_count > 0 THEN "suspicious"
    ELSE "safe"

\* the status expression of scan_file
Verdict(malicious_count, suspicious_count, neutral_count) ==
    IF malicious_count > 0 THEN "unsafe"
    ELSE IF suspicious_count > 0 \/ neutral_count > 0 THEN "suspicious"
    ELSE "safe"

ZeroStats == [threats_found |-> 0, malicious |-> 0, suspicious |-> 0, neutral |-> 0]

MakeStatsMiscount(threats) ==
    [threats_found |-> Len(threats),
     malicious     |-> CountSeverity(threats, "malicious"),
     suspicious    |-> CountSeverity(threats, "malicious"),
     neutral       |-> CountSeverity(threats, "neutral")]

\* the ScanStats literal of scan_file
MakeStats(threats) ==
    [threats_found |-> Len(threats),
     malicious     |-> CountSeverity(threats, "malicious"),
     suspicious    |-> CountSeverity(threats, "suspicious"),
     neutral       |-> CountSeverity(threats, "neutral")]

NoFileInfo == [filename |-> "", size |-> 0, sha256 |-> <<>>]

\* the ScanResult struct
ScanResult(status, threats, stats, logs, file_info) ==
    [status |-> status, threats |-> threats, stats |-> stats, logs |-> logs,
     file_info |-> file_info]

NoResult == ScanResult("", <<>>, ZeroStats, <<>>, NoFileInfo)

(***************************************************************************)
(* main.rs: how the streaming reader renders one log line                  *)
(***************************************************************************)
\* str::find(c): the 1-based position of the first c, 0 for None
Find(log, c) ==
    IF \E i \in 1..Len(log) : log[i] = c
    THEN CHOOSE i \in 1..Len(log) : log[i] = c /\ \A j \in 1..(i - 1) : log[j] # c
    ELSE 0

DigitValue(d) ==
    CASE d = "0" -> 0 [] d = "1" -> 1 [] d = "2" -> 2 [] d = "3" -> 3 [] d = "4" -> 4
      [] d = "5" -> 5 [] d = "6" -> 6 [] d = "7" -> 7 [] d = "8" -> 8 [] d = "9" -> 9
      [] OTHER -> -1

RECURSIVE ParseU32(_)
\* str::parse::<u32>(): -1 stands for Err (empty text or a character that is no digit)
ParseU32(s) ==
    IF Len(s) = 0 THEN -1
    ELSE IF DigitValue(s[Len(s)]) < 0 THEN -1
    ELSE IF Len(s) = 1 THEN DigitValue(s[1])
    ELSE LET hi == ParseU32(SubSeq(s, 1, Len(s) - 1))
         IN  IF hi < 0 THEN -1 ELSE hi * 10 + DigitValue(s[Len(s)])

\* the `progress` of a log line: the number between the first '[' and the first '%',
\* 0 when either is missing or the text between them is no number
ExtractProgress(log) ==
    LET start == Find(log, "[")
        end   == Find(log, "%")
    IN  IF start > 0
        THEN IF end > 0
             THEN LET n == ParseU32(SubSeq(log, start + 1, end - 1))
                  IN  IF n < 0 THEN 0 ELSE n
             ELSE 0
        ELSE 0

\* the `message` of a log line: what follows "] ", or the whole line without a ']'
ExtractMessage(log) ==
    LET bracket_end == Find(log, "]")
    IN  IF bracket_end > 0 THEN SubSeq(log, bracket_end + 2, Len(log)) ELSE log

\* the ProgressUpdate pushed to sse_data for one log line
ProgressUpdate(log) ==
    [progress |-> ExtractProgress(log), message |-> ExtractMessage(log)]


(***************************************************************************)
(* State                                                                   *)
(***************************************************************************)
VARIABLES
    store,      \* ScanStore: scan id -> ScanResult, for the ids inserted so far
    lock,       \* holder of the ScanStore mutex: Free, MainThread or a worker's id
    disk,       \* temp files in UPLOAD_DIR: scan id -> content, for the files that exist
    worker,     \* per scan id, the locals of the thread scan_file spawns
    handler,    \* the locals of the request handler running on the main thread
    response    \* the response the main thread sends in this step (NoResponse: none)

vars == <<store, lock, disk, worker, handler, response>>

\* HashMap::insert: adds the key or replaces its value
Insert(map, key, value) ==
    [k \in DOMAIN map \cup {key} |-> IF k = key THEN value ELSE map[k]]

\* fs::remove_file, its error ignored: the file is gone afterwards
RemoveFile(files, id) == [k \in DOMAIN files \ {id} |-> files[k]]

NoWorker ==
    [pc |-> "none", file_info |-> NoFileInfo, content |-> NoContent, error |-> "",
     threats |-> <<>>, result |-> NoResult, removes |-> 0]

\* connected: is the client of the request being handled still there (the
\* `request` the handler owns until it responds)
IdleHandler ==
    [pc |-> "idle", scan_id |-> 0, file_info |-> NoFileInfo, last_progress |-> 0,
     sse_data |-> <<>>, scan_complete |-> FALSE, connected |-> TRUE]

\* a response: its status code, what its body is ("error", "scanId", "sse",
\* "result"), the scan id it is about (0: none), the text of its "error",
\* the record a "result" body is the JSON of (NoResult: none) and the events
\* of an "sse" body
Response(code, kind, scan_id, error) ==
    [code |-> code, kind |-> kind, scan_id |-> scan_id, error |-> error,
     result |-> NoResult, sse_data |-> <<>>]

NoResponse == Response(0, "none", 0, "")

\* `Response::from_string(serde_json::to_string(result))` with status 200
ResultResponse(scan_id, result) ==
    [Response(200, "result", scan_id, "") EXCEPT !.result = result]

Init ==
    /\ store = <<>>
    /\ lock = Free
    /\ disk = <<>>
    /\ worker = [id \in Ids |-> NoWorker]
    /\ handler = IdleHandler
    /\ response = NoResponse

(***************************************************************************)
(* main.rs: handle_upload                                                  *)
(***************************************************************************)
NoFile == [filename |-> "", len |-> -1, mz |-> FALSE, words |-> {}]

\* an upload request: is its Content-Type multipart/form-data, can its body be
\* read, the file parse_multipart finds in it (NoFile: none), can the temp file
\* be written
UploadRequest(multipart, readable, file, writable) ==
    [multipart |-> multipart, readable |-> readable, file |-> file, writable |-> writable]

\* the requests tried: every sample sent well-formed, and one request for each
\* way an upload can fail
UploadRequests ==
    {UploadRequest(TRUE, TRUE, file, TRUE) : file \in Samples}
    \cup {UploadRequest(FALSE, TRUE, NoFile, TRUE),
          UploadRequest(TRUE, FALSE, NoFile, TRUE),
          UploadRequest(TRUE, TRUE, NoFile, TRUE),
          UploadRequest(TRUE, TRUE, Oversized, TRUE)}
    \cup {UploadRequest(TRUE, TRUE, file, FALSE) : file \in Samples}

\* file_size > MAX_FILE_SIZE
SizeExceeds(file_size) == file_size > MAX_FILE_SIZE

\* the early returns of handle_upload, in the order of the code; "" when the
\* request passes them all
UploadError(req) ==
    IF ~req.multipart THEN "Expected multipart/form-data"
    ELSE IF ~req.readable THEN "Failed to read request body"
    ELSE IF req.file = NoFile THEN "No file found in multipart data"
    ELSE IF SizeExceeds(req.file.len) THEN "File size exceeds maximum limit"
    ELSE IF ~req.writable THEN "Failed to save file"
    ELSE ""

\* Uuid::new_v4(): an id no earlier upload got
NewScanId == Cardinality(DOMAIN store) + 1

HandleUploadRejectAfterInsert(req) ==
    /\ handler.pc = "idle"
    /\ UploadError(req) # ""
    /\ lock = Free
    /\ store' = IF NewScanId <= MaxScans
                THEN Insert(store, NewScanId, ScanResult("scanning", <<>>, ZeroStats,
                                                         <<InitialLog>>, NoFileInfo))
                ELSE store
    /\ response' = Response(IF UploadError(req) = "Failed to save file" THEN 500 ELSE 400,
                            "error", 0, UploadError(req))
    /\ UNCHANGED <<lock, disk, worker, handler>>

\* a request that fails a check is answered 400 (500 for the failed write)
HandleUploadReject(req) ==
    /\ handler.pc = "idle"
    /\ UploadError(req) # ""
    /\ response' = Response(IF UploadError(req) = "Failed to save file" THEN 500 ELSE 400,
                            "error", 0, UploadError(req))
    /\ UNCHANGED <<store, lock, disk, worker, handler>>

\* the checks pass: the digest is computed and the temp file written
HandleUploadSave(req) ==
    /\ handler.pc = "idle"
    /\ UploadError(req) = ""
    /\ NewScanId <= MaxScans
    /\ disk' = Insert(disk, NewScanId, req.file)
    /\ handler' = [IdleHandler EXCEPT
                     !.pc = "up_insert",
                     !.scan_id = NewScanId,
                     !.file_info = [filename |-> req.file.filename,
                                    size |-> req.file.len,
                                    sha256 |-> calculate_sha256(req.file)]]
    /\ response' = NoResponse
    /\ UNCHANGED <<store, lock, worker>>

InitialResultEmptyLog(file_info) ==
    ScanResult("scanning", <<>>, ZeroStats, <<>>, file_info)

\* the record handle_upload inserts
InitialResult(file_info) ==
    ScanResult("scanning", <<>>, ZeroStats, <<InitialLog>>, file_info)

\* { let mut store = scan_store.lock().unwrap(); store.insert(scan_id, result); }
UploadInsert ==
    /\ handler.pc = "up_insert"
    /\ lock = Free
    /\ store' = Insert(store, handler.scan_id, InitialResult(handler.file_info))
    /\ handler' = [handler EXCEPT !.pc = "up_spawn"]
    /\ response' = NoResponse
    /\ UNCHANGED <<lock, disk, worker>>

\* scan_file(file_path, file_info, scan_id, scan_store): thread::spawn
UploadSpawn ==
    /\ handler.pc = "up_spawn"
    /\ worker' = [worker EXCEPT ![handler.scan_id] =
                    [NoWorker EXCEPT !.pc = "p10", !.file_info = handler.file_info]]
    /\ handler' = [handler EXCEPT !.pc = "up_respond"]
    /\ response' = NoResponse
    /\ UNCHANGED <<store, lock, disk>>

\* request.respond(UploadResponse { scan_id })
UploadRespond ==
    /\ handler.pc = "up_respond"
    /\ response' = Response(200, "scanId", handler.scan_id, "")
    /\ handler' = IdleHandler
    /\ UNCHANGED <<store, lock, disk, worker>>

(***************************************************************************)
(* main.rs: handle_scan_status                                             *)
(***************************************************************************)
\* `scan_store.lock(); !store.contains_key(&scan_id)`: 404, return
HandleStatusNotFound(id) ==
    /\ handler.pc = "idle"
    /\ lock = Free
    /\ id \notin DOMAIN store
    /\ response' = Response(404, "error", id, "Scan not found")
    /\ UNCHANGED <<store, lock, disk, worker, handler>>

HandleStatusOpenUnchecked(id) ==
    /\ handler.pc = "idle"
    /\ lock = Free
    /\ handler' = [IdleHandler EXCEPT !.pc = "st_sleep", !.scan_id = id]
    /\ response' = NoResponse
    /\ UNCHANGED <<store, lock, disk, worker>>

\* the id is known: sse_data = "", last_progress = 0, and the loop is entered;
\* the handler is in thread::sleep(100 ms), holding no lock
HandleStatusOpen(id) ==
    /\ handler.pc = "idle"
    /\ lock = Free
    /\ id \in DOMAIN store
    /\ handler' = [IdleHandler EXCEPT !.pc = "st_sleep", !.scan_id = id]
    /\ response' = NoResponse
    /\ UNCHANGED <<store, lock, disk, worker>>

RECURSIVE RenderFrom(_, _)
\* the events pushed for the log lines with index >= last_progress, in log order
RenderFrom(logs, last_progress) ==
    IF last_progress >= Len(logs) THEN <<>>
    ELSE <<ProgressUpdate(logs[last_progress + 1])>> \o RenderFrom(logs, last_progress + 1)

\* the client goes away while the handler is in its loop; nothing in the loop
\* looks at `request` before the respond that follows the loop
ClientDisconnect ==
    /\ handler.pc = "st_sleep"
    /\ handler.connected
    /\ handler' = [handler EXCEPT !.connected = FALSE]
    /\ response' = NoResponse
    /\ UNCHANGED <<store, lock, disk, worker>>

StatusPollNoCursor ==
    /\ handler.pc = "st_sleep"
    /\ lock = Free
    /\ lock' = MainThread
    /\ IF handler.scan_id \in DOMAIN store
       THEN LET result == store[handler.scan_id]
            IN  handler' = [handler EXCEPT
                   !.sse_data = @ \o RenderFrom(result.logs, handler.last_progress),
                   !.scan_complete = result.status # "scanning",
                   !.pc = "st_locked"]
       ELSE handler' = [handler EXCEPT !.pc = "st_locked"]
    /\ response' = NoResponse
    /\ UNCHANGED <<store, disk, worker>>

\* one iteration of the loop: the sleep is over, the lock is taken, and under
\* it the new log lines are pushed and the status looked at
StatusPoll ==
    /\ handler.pc = "st_sleep"
    /\ lock = Free
    /\ lock' = MainThread
    /\ IF handler.scan_id \in DOMAIN store
       THEN LET result == store[handler.scan_id]
            IN  handler' = [handler EXCEPT
                   !.sse_data = @ \o RenderFrom(result.logs, handler.last_progress),
                   !.last_progress = IF Len(result.logs) > @ THEN Len(result.logs) ELSE @,
                   !.scan_complete = result.status # "scanning",
                   !.pc = "st_locked"]
       ELSE handler' = [handler EXCEPT !.pc = "st_locked"]
    /\ response' = NoResponse
    /\ UNCHANGED <<store, disk, worker>>

StatusUnlockHoldsLock ==
    /\ handler.pc = "st_locked"
    /\ lock = MainThread
    /\ handler' = [handler EXCEPT
          !.pc = IF handler.scan_complete THEN "st_respond" ELSE "st_sleep"]
    /\ response' = NoResponse
    /\ UNCHANGED <<store, lock, disk, worker>>

\* the end of the loop body drops the guard; `while !scan_complete` then goes
\* back to the sleep or leaves the loop
StatusUnlock ==
    /\ handler.pc = "st_locked"
    /\ lock = MainThread
    /\ lock' = Free
    /\ handler' = [handler EXCEPT
          !.pc = IF handler.scan_complete THEN "st_respond" ELSE "st_sleep"]
    /\ response' = NoResponse
    /\ UNCHANGED <<store, disk, worker>>

\* scan_complete: the collected events are sent as one text/event-stream body
StatusRespond ==
    /\ handler.pc = "st_respond"
    /\ response' = [Response(200, "sse", handler.scan_id, "") EXCEPT
                       !.sse_data = handler.sse_data]
    /\ handler' = IdleHandler
    /\ UNCHANGED <<store, lock, disk, worker>>

(***************************************************************************)
(* main.rs: handle_scan_result                                             *)
(***************************************************************************)
HandleScanResultConcurrent(id) ==
    /\ lock = Free
    /\ response' = IF id \in DOMAIN store
                   THEN ResultResponse(id, store[id])
                   ELSE Response(404, "error", id, "Scan not found")
    /\ UNCHANGED <<store, lock, disk, worker, handler>>

\* the lock is taken, the record (or 404) sent, the lock dropped at the return
HandleScanResult(id) ==
    /\ handler.pc = "idle"
    /\ lock = Free
    /\ response' = IF id \in DOMAIN store
                   THEN ResultResponse(id, store[id])
                   ELSE Response(404, "error", id, "Scan not found")
    /\ UNCHANGED <<store, lock, disk, worker, handler>>

(***************************************************************************)
(* utils.rs: send_progress, and scanner.rs: the thread of scan_file        *)
(***************************************************************************)
send_progress_any(scan_id, progress, message) ==
    [k \in DOMAIN store |->
        [store[k] EXCEPT !.logs = Append(@, FormatProgress(progress, message))]]

\* the registry after send_progress(scan_id, progress, message, scan_store)
send_progress(scan_id, progress, message) ==
    IF scan_id \in DOMAIN store
    THEN [store EXCEPT ![scan_id].logs = Append(@, FormatProgress(progress, message))]
    ELSE store

\* a send_progress call of worker id, after which the worker is at `next`
WorkerProgress(id, at, progress, message, next) ==
    /\ worker[id].pc = at
    /\ lock = Free
    /\ store' = send_progress(id, progress, message)
    /\ worker' = [worker EXCEPT ![id].pc = next]
    /\ response' = NoResponse
    /\ UNCHANGED <<lock, disk, handler>>

WProgress10(id) == WorkerProgress(id, "p10", 10, "Reading file content...", "read")

\* fs::read(&file_path) returns Ok(content)
WReadOk(id) ==
    /\ worker[id].pc = "read"
    /\ id \in DOMAIN disk
    /\ worker' = [worker EXCEPT ![id].pc = "p30", ![id].content = disk[id]]
    /\ response' = NoResponse
    /\ UNCHANGED <<store, lock, disk, handler>>

\* fs::read(&file_path) returns Err(e): the file was deleted by someone else in
\* the meantime, or it is there and cannot be read
WReadErr(id) ==
    /\ worker[id].pc = "read"
    /\ \/ /\ disk' = RemoveFile(disk, id)
          /\ worker' = [worker EXCEPT ![id].pc = "err", ![id].error = NotFoundError]
       \/ /\ id \in DOMAIN disk
          /\ disk' = disk
          /\ worker' = [worker EXCEPT ![id].pc = "err", ![id].error = DeniedError]
    /\ response' = NoResponse
    /\ UNCHANGED <<store, lock, handler>>

MarkReadErrorKeepsStatus(result, e) ==
    [result EXCEPT !.logs = Append(@, FormatReadError(e))]

MarkReadErrorTwoLines(result, e) ==
    [result EXCEPT !.status = "error",
                   !.logs = @ \o <<FormatProgress(10, "Read failed"), FormatReadError(e)>>]

\* the record after the Err arm: status "error", one more log line
MarkReadError(result, e) ==
    [result EXCEPT !.status = "error", !.logs = Append(@, FormatReadError(e))]

\* the Err arm takes the lock and marks the record
WReadFailed(id) ==
    /\ worker[id].pc = "err"
    /\ lock = Free
    /\ lock' = id
    /\ store' = IF id \in DOMAIN store
                THEN [store EXCEPT ![id] = MarkReadError(@, worker[id].error)]
                ELSE store
    /\ worker' = [worker EXCEPT ![id].pc = "err_remove"]
    /\ response' = NoResponse
    /\ UNCHANGED <<disk, handler>>

WReadFailedCleanupNoReturn(id) ==
    /\ worker[id].pc = "err_remove"
    /\ lock = id
    /\ disk' = RemoveFile(disk, id)
    /\ lock' = Free
    /\ worker' = [worker EXCEPT ![id].pc = "p30", ![id].removes = @ + 1]
    /\ response' = NoResponse
    /\ UNCHANGED <<store, handler>>

\* still in the Err arm: fs::remove_file, return (the guard is dropped)
WReadFailedCleanup(id) ==
    /\ worker[id].pc = "err_remove"
    /\ lock = id
    /\ disk' = RemoveFile(disk, id)
    /\ lock' = Free
    /\ worker' = [worker EXCEPT ![id].pc = "done", ![id].removes = @ + 1]
    /\ response' = NoResponse
    /\ UNCHANGED <<store, handler>>

IsPELenOnly(content) == content.len >= 2

\* content.len() >= 2 && &content[0..2] == b"MZ"
IsPE(content) == content.len >= 2 /\ content.mz

WProgress30(id) ==
    WorkerProgress(id, "p30", 30, "Scanning file headers...",
                   IF IsPE(worker[id].content) THEN "p50" ELSE "p60")

WProgress50AddsFinding(id) ==
    /\ worker[id].pc = "p50"
    /\ lock = Free
    /\ store' = send_progress(id, 50, "PE executable detected, analyzing...")
    /\ worker' = [worker EXCEPT
          ![id].pc = "p60",
          ![id].threats = Append(@, Threat("PE Executable", "File has an MZ header",
                                           "suspicious", "S000"))]
    /\ response' = NoResponse
    /\ UNCHANGED <<lock, disk, handler>>

\* the header matched: send_progress(50); `threats` is not touched
WProgress50(id) ==
    WorkerProgress(id, "p50", 50, "PE executable detected, analyzing...", "p60")

\* send_progress(60), then threats.extend(check_indicators(&content_str))
WProgress60(id) ==
    /\ worker[id].pc = "p60"
    /\ lock = Free
    /\ store' = send_progress(id, 60, "Performing signature analysis...")
    /\ worker' = [worker EXCEPT ![id].pc = "p90",
                                ![id].threats = @ \o check_indicators(worker[id].content)]
    /\ response' = NoResponse
    /\ UNCHANGED <<lock, disk, handler>>

\* send_progress(90), then the worker is in thread::sleep(1 s)
WProgress90(id) == WorkerProgress(id, "p90", 90, "Finalizing results...", "sleep")

\* the sleep is over: send_progress(100)
WProgress100(id) == WorkerProgress(id, "sleep", 100, "Scan complete!", "logs")

CloneLogsNone(id) == <<>>

\* { let store = scan_store.lock().unwrap();
\*   store.get(&scan_id).map(|r| r.logs.clone()).unwrap_or_default() }
CloneLogs(id) == IF id \in DOMAIN store THEN store[id].logs ELSE <<>>

WBuildResultHoldsLock(id) ==
    /\ worker[id].pc = "logs"
    /\ lock = Free
    /\ lock' = id
    /\ LET threats == worker[id].threats
           stats   == MakeStats(threats)
           status  == Verdict(stats.malicious, stats.suspicious, stats.neutral)
       IN  worker' = [worker EXCEPT
                        ![id].pc = "insert",
                        ![id].result = ScanResult(status, threats, stats, CloneLogs(id),
                                                  worker[id].file_info)]
    /\ response' = NoResponse
    /\ UNCHANGED <<store, disk, handler>>

\* the counts, the status and the ScanResult literal; its logs field takes and
\* drops the lock
WBuildResult(id) ==
    /\ worker[id].pc = "logs"
    /\ lock = Free
    /\ LET threats == worker[id].threats
           stats   == MakeStats(threats)
           status  == Verdict(stats.malicious, stats.suspicious, stats.neutral)
       IN  worker' = [worker EXCEPT
                        ![id].pc = "insert",
                        ![id].result = ScanResult(status, threats, stats, CloneLogs(id),
                                                  worker[id].file_info)]
    /\ response' = NoResponse
    /\ UNCHANGED <<store, lock, disk, handler>>

\* let mut store = scan_store.lock().unwrap(); store.insert(scan_id, result);
WInsert(id) ==
    /\ worker[id].pc = "insert"
    /\ lock = Free
    /\ lock' = id
    /\ store' = Insert(store, id, worker[id].result)
    /\ worker' = [worker EXCEPT ![id].pc = "remove"]
    /\ response' = NoResponse
    /\ UNCHANGED <<disk, handler>>

WCleanupKeepsFile(id) ==
    /\ worker[id].pc = "remove"
    /\ lock = id
    /\ lock' = Free
    /\ worker' = [worker EXCEPT ![id].pc = "done", ![id].removes = @ + 1]
    /\ response' = NoResponse
    /\ UNCHANGED <<store, disk, handler>>

WCleanupLogsDone(id) ==
    /\ worker[id].pc = "remove"
    /\ lock = id
    /\ disk' = RemoveFile(disk, id)
    /\ store' = [store EXCEPT ![id].logs = Append(@, FormatProgress(100, "Done"))]
    /\ lock' = Free
    /\ worker' = [worker EXCEPT ![id].pc = "done", ![id].removes = @ + 1]
    /\ response' = NoResponse
    /\ UNCHANGED handler

\* fs::remove_file, println, end of the closure (the guard is dropped)
WCleanup(id) ==
    /\ worker[id].pc = "remove"
    /\ lock = id
    /\ disk' = RemoveFile(disk, id)
    /\ lock' = Free
    /\ worker' = [worker EXCEPT ![id].pc = "done", ![id].removes = @ + 1]
    /\ response' = NoResponse
    /\ UNCHANGED <<store, handler>>

(***************************************************************************)
(* The system                                                              *)
(***************************************************************************)
Handler ==
    \/ \E req \in UploadRequests : HandleUploadReject(req)
    \/ \E req \in UploadRequests : HandleUploadSave(req)
    \/ UploadInsert
    \/ UploadSpawn
    \/ UploadRespond
    \/ \E id \in QueryIds : HandleStatusNotFound(id)
    \/ \E id \in QueryIds : HandleStatusOpen(id)
    \/ ClientDisconnect
    \/ StatusPoll
    \/ StatusUnlock
    \/ StatusRespond
    \/ \E id \in QueryIds : HandleScanResult(id)

Worker(id) ==
    \/ WProgress10(id)
    \/ WReadOk(id)
    \/ WReadErr(id)
    \/ WReadFailed(id)
    \/ WReadFailedCleanup(id)
    \/ WProgress30(id)
    \/ WProgress50(id)
    \/ WProgress60(id)
    \/ WProgress90(id)
    \/ WProgress100(id)
    \/ WBuildResult(id)
    \/ WInsert(id)
    \/ WCleanup(id)

Next == Handler \/ \E id \in Ids : Worker(id)

Spec == Init /\ [][Next]_vars

\* the rest of handle_upload once the temp file is written: straight-line code
UploadRest == UploadInsert \/ UploadSpawn \/ UploadRespond

\* threads keep being scheduled: the main thread finishes an upload it has
\* started (which spawns the worker) and leaves the critical section of a poll
\* it has entered; every spawned worker thread runs, and gets the lock the
\* polling loop releases for its 100 ms sleep in every iteration
FairSpec ==
    /\ Spec
    /\ WF_vars(UploadRest)
    /\ WF_vars(StatusUnlock)
    /\ \A id \in Ids : SF_vars(Worker(id))

(***************************************************************************)
(* The threads at the registry lock.  Who takes the lock, and when, does   *)
(* not depend on the words of a file or on requests that are rejected      *)
(* before the registry is touched: the uploads are one file with the       *)
(* executable magic and one without, and the client stays connected.       *)
(***************************************************************************)
LockRequests ==
    {UploadRequest(TRUE, TRUE, file, TRUE) :
        file \in {s \in Samples : s.filename \in {"tool.exe", "note.txt"}}}

LockHandler ==
    \/ \E req \in LockRequests : HandleUploadSave(req)
    \/ UploadInsert
    \/ UploadSpawn
    \/ UploadRespond
    \/ \E id \in Ids : HandleStatusOpen(id)
    \/ StatusPoll
    \/ StatusUnlock
    \/ StatusRespond
    \/ \E id \in Ids : HandleScanResult(id)

LockNext == LockHandler \/ \E id \in Ids : Worker(id)

LockSpec == Init /\ [][LockNext]_vars

\* the reader's sleep is over and the lock is free: StatusPoll is enabled
ReaderCanLock == handler.pc = "st_sleep" /\ lock = Free

\* the reader's sleep ends and it goes for the lock: WF_vars(StatusPoll), with
\* ENABLED <<StatusPoll>>_vars written as the state predicate it equals
ReaderFair == []<>~ReaderCanLock \/ []<><<StatusPoll>>_vars

\* threads keep being scheduled, as in FairSpec, and the reader gets the lock,
\* which the finitely many acquisitions of the workers cannot keep from it
LockFairSpec ==
    /\ LockSpec
    /\ WF_vars(UploadRest)
    /\ WF_vars(StatusUnlock)
    /\ ReaderFair
    /\ \A id \in Ids : SF_vars(Worker(id))

(***************************************************************************)
(* The finalization of scan_file on an arbitrary detector output.  The     *)
(* detector is the only source of the worker's `threats`; here the worker  *)
(* of scan 1 stands right after send_progress(100) with any vector of      *)
(* findings of up to MaxThreats severities, and runs its remaining steps.  *)
(***************************************************************************)
ThreatVectors ==
    UNION {[1..n -> {Threat("Finding", "", sev, "T") : sev \in Severities}] :
           n \in 0..MaxThreats}

FinalizeSample == CHOOSE c \in Samples : ~c.mz /\ c.words = {}

FinalizeFileInfo ==
    [filename |-> FinalizeSample.filename, size |-> FinalizeSample.len,
     sha256 |-> calculate_sha256(FinalizeSample)]

FinalizeLogs ==
    <<InitialLog,
      FormatProgress(10, "Reading file content..."),
      FormatProgress(30, "Scanning file headers..."),
      FormatProgress(60, "Performing signature analysis..."),
      FormatProgress(90, "Finalizing results..."),
      FormatProgress(100, "Scan complete!")>>

FinalizeInit ==
    /\ store = Insert(<<>>, 1, [InitialResult(FinalizeFileInfo) EXCEPT !.logs = FinalizeLogs])
    /\ lock = Free
    /\ disk = Insert(<<>>, 1, FinalizeSample)
    /\ \E threats \in ThreatVectors :
         worker = [id \in Ids |->
                     IF id = 1
                     THEN [NoWorker EXCEPT !.pc = "logs", !.file_info = FinalizeFileInfo,
                                           !.content = FinalizeSample, !.threats = threats]
                     ELSE NoWorker]
    /\ handler = IdleHandler
    /\ response = NoResponse

FinalizeNext == \E id \in Ids : WBuildResult(id) \/ WInsert(id) \/ WCleanup(id)

FinalizeSpec == FinalizeInit /\ [][FinalizeNext]_vars

(***************************************************************************)
(* Properties                                                              *)
(***************************************************************************)
IsPrefix(s, t) == Len(s) <= Len(t) /\ SubSeq(t, 1, Len(s)) = s

Count(threats, sev) == Cardinality({i \in DOMAIN threats : threats[i].severity = sev})

\* C1: under fair scheduling of the threads, every record the upload handler
\* inserted eventually has a terminal status (safe, suspicious, unsafe or error),
\* whether the worker's file read succeeds or fails.
C1_EventuallyTerminal ==
    \A id \in Ids :
        (id \in DOMAIN store) ~> (id \in DOMAIN store /\ store[id].status \in Terminal)

\* both outcomes happened: one scan ended in "error", another with a verdict
C1_Witness ==
    \E a, b \in DOMAIN store :
        /\ store[a].status = "error"
        /\ store[b].status \in {"safe", "suspicious", "unsafe"}

\* C2: a record enters the registry with status "scanning"; its status changes
\* only from "scanning" to a terminal value, so it changes at most once, never
\* changes again once terminal and never returns to "scanning"; no record leaves.
C2_StatusChangesOnce ==
    [][/\ \A id \in DOMAIN store' \ DOMAIN store : store'[id].status = "scanning"
       /\ \A id \in DOMAIN store :
            /\ id \in DOMAIN store'
            /\ store'[id].status # store[id].status
                 => store[id].status = "scanning" /\ store'[id].status \in Terminal]_vars

\* a worker has finished on each path, and the status it set is still there
C2_Witness ==
    \E a, b \in DOMAIN store :
        /\ worker[a].pc = "done" /\ store[a].status = "error"
        /\ worker[b].pc = "done" /\ store[b].status \in {"safe", "suspicious", "unsafe"}

\* C3: the status the worker finalizes with is "unsafe" if its findings hold a
\* malicious one; otherwise "suspicious" if they hold a suspicious or a neutral
\* one; otherwise "safe".
C3_VerdictLaw ==
    \A id \in DOMAIN store :
        store[id].status \in {"safe", "suspicious", "unsafe"} =>
            LET m == Count(worker[id].threats, "malicious")
                s == Count(worker[id].threats, "suspicious")
                n == Count(worker[id].threats, "neutral")
            IN  /\ m > 0 => store[id].status = "unsafe"
                /\ m = 0 /\ (s > 0 \/ n > 0) => store[id].status = "suspicious"
                /\ m = 0 /\ s = 0 /\ n = 0 => store[id].status = "safe"

\* a single neutral finding alone was finalized as "suspicious"
C3_Witness ==
    \E id \in DOMAIN store :
        /\ Len(worker[id].threats) = 1
        /\ worker[id].threats[1].severity = "neutral"
        /\ store[id].status = "suspicious"

\* C4: a record with a terminal status has stats that agree with its findings:
\* threatsFound = number of findings = malicious + suspicious + neutral, and each
\* count is the number of findings of that severity.
C4_StatsConsistent ==
    \A id \in DOMAIN store :
        store[id].status \in Terminal =>
            LET r == store[id]
            IN  /\ r.stats.threats_found = Len(r.threats)
                /\ r.stats.threats_found = r.stats.malicious + r.stats.suspicious + r.stats.neutral
                /\ r.stats.malicious = Count(r.threats, "malicious")
                /\ r.stats.suspicious = Count(r.threats, "suspicious")
                /\ r.stats.neutral = Count(r.threats, "neutral")

\* a terminal record with a finding, and one that ended in "error"
C4_Witness ==
    \E a, b \in DOMAIN store :
        /\ store[a].status = "suspicious" /\ Len(store[a].threats) = 1
        /\ store[b].status = "error"

\* C5: in every step the log of every record is extended or left alone: the old
\* log is a prefix of the new one (and the record stays in the registry).
C5_LogAppendOnly ==
    [][\A id \in DOMAIN store :
         id \in DOMAIN store' /\ IsPrefix(store[id].logs, store'[id].logs)]_vars

\* a worker has re-inserted its record with the whole log, the 100% line last
C5_Witness ==
    \E id \in DOMAIN store :
        /\ worker[id].pc = "done"
        /\ store[id].status \in {"safe", "suspicious", "unsafe"}
        /\ Len(store[id].logs) >= 6
        /\ store[id].logs[Len(store[id].logs)] = FormatProgress(100, "Scan complete!")

\* C6: the percent values the streaming reader renders from the log of a record
\* lie in 0..100 and never decrease along the log, whatever the scan's outcome.
C6_PercentMonotone ==
    \A id \in DOMAIN store :
        LET events == RenderFrom(store[id].logs, 0)
        IN  \A i \in 1..Len(events) :
                /\ events[i].progress \in 0..100
                /\ i > 1 => events[i - 1].progress <= events[i].progress

\* C7: a terminal status read through the registry (the worker that set it no
\* longer holds the lock) means the temp file is gone; each worker calls
\* remove_file once, on either path, and only when it is done with the file.
C7_FileGoneWhenTerminal ==
    \A id \in Ids :
        /\ id \in DOMAIN store /\ store[id].status \in Terminal /\ lock # id
             => id \notin DOMAIN disk
        /\ worker[id].removes <= 1
        /\ worker[id].removes = 1 <=> worker[id].pc = "done"

\* both paths have ended: file read and scanned, and file unreadable though present
C7_Witness ==
    \E a, b \in DOMAIN store :
        /\ store[a].status \in {"safe", "suspicious", "unsafe"} /\ worker[a].removes = 1
        /\ store[b].status = "error" /\ worker[b].error = DeniedError /\ worker[b].removes = 1
        /\ lock = Free /\ DOMAIN disk = {}

\* C8: a rejected upload is answered with an error by a handler that is done, and
\* the step that answers it changes neither the registry nor the workers; a key
\* enters the registry only by the insert of an upload that passed the checks
\* (so its file is within the size limit), a worker starts only by the spawn of
\* that same upload, and outside of that handler's insert-then-spawn the scans
\* in the registry are exactly the scans with a worker.
C8_RejectedLeavesNoTrace ==
    /\ [](/\ response.code \in {400, 500} => response.kind = "error" /\ handler.pc = "idle"
          /\ \A id \in Ids : worker[id].pc # "none" => id \in DOMAIN store
          /\ \A id \in DOMAIN store :
               /\ store[id].file_info.size <= MAX_FILE_SIZE
               /\ worker[id].pc = "none" => handler.pc = "up_spawn" /\ handler.scan_id = id)
    /\ [][/\ response'.code \in {400, 500} => store' = store /\ worker' = worker
          /\ DOMAIN store' # DOMAIN store =>
               /\ handler.pc = "up_insert"
               /\ DOMAIN store' = DOMAIN store \cup {handler.scan_id}
          /\ \A id \in Ids :
               worker[id].pc = "none" /\ worker'[id].pc # "none" =>
                   handler.pc = "up_spawn" /\ handler.scan_id = id]_vars

\* an oversized upload was just rejected while an earlier scan is in the registry
C8_Witness ==
    /\ response.code = 400
    /\ response.error = "File size exceeds maximum limit"
    /\ DOMAIN store # {}
    /\ \E id \in DOMAIN store : worker[id].pc # "none"

\* C9: the polling loop is entered, and a stream or a result sent, only for an id
\* in the registry; a not-found answer is about an id that is not in the
\* registry, is given in one step by a handler that was idle and is idle again
\* (it never polled), and leaves the registry unchanged.
C9_UnknownIdNotFound ==
    /\ [](/\ handler.pc \in {"st_sleep", "st_locked", "st_respond"} =>
               handler.scan_id \in DOMAIN store
          /\ response.kind \in {"sse", "result"} => response.scan_id \in DOMAIN store
          /\ response.code = 404 =>
               /\ response.error = "Scan not found"
               /\ response.scan_id \notin DOMAIN store
               /\ handler.pc = "idle")
    /\ [][response'.code = 404 => handler.pc = "idle" /\ store' = store]_vars

\* an id the server never generated was asked for while the registry holds a scan
C9_Witness ==
    /\ response.code = 404
    /\ response.scan_id = 0
    /\ DOMAIN store # {}

\* C10: when the upload handler returns the scan id, the registry holds a record
\* for that id and its status is "scanning".
C10_ScanningAtReturn ==
    response.kind = "scanId" =>
        /\ response.scan_id \in DOMAIN store
        /\ store[response.scan_id].status = "scanning"

\* the records a step adds to the registry under ids it did not hold
NewIds == DOMAIN store' \ DOMAIN store

\* C11 as stated: the record the submission handler inserts has status
\* 'scanning', an empty log, no findings and all-zero stats.
C11_InsertedLogEmpty ==
    [][\A id \in NewIds :
          /\ store'[id].status = "scanning"
          /\ store'[id].logs = <<>>
          /\ store'[id].threats = <<>>
          /\ store'[id].stats = ZeroStats]_vars

\* C11, amended: the record the submission handler inserts has status
\* 'scanning', a log of exactly one entry, "[0%] Initializing scan...", no
\* findings and all-zero stats; it is in the registry, unchanged, when the
\* handler goes on to spawn the worker.
C11_InsertedInitialRecord ==
    /\ [][\A id \in NewIds :
             /\ handler.pc = "up_insert"
             /\ id = handler.scan_id
             /\ store'[id].status = "scanning"
             /\ store'[id].logs = <<InitialLog>>
             /\ store'[id].threats = <<>>
             /\ store'[id].stats = ZeroStats
             /\ store'[id].file_info = handler.file_info]_vars
    /\ [](handler.pc = "up_spawn" =>
            /\ handler.scan_id \in DOMAIN store
            /\ store[handler.scan_id].status = "scanning"
            /\ Len(store[handler.scan_id].logs) = 1
            /\ store[handler.scan_id].threats = <<>>
            /\ store[handler.scan_id].stats = ZeroStats)

\* the second upload's record has just been inserted
C11_Witness ==
    /\ handler.pc = "up_spawn"
    /\ handler.scan_id = 2
    /\ store[2].logs = <<InitialLog>>
    /\ store[2].status = "scanning"

\* C12: a record whose status is terminal stays in the registry and never
\* changes in any field, and a result query answers with the record as the
\* registry holds it, so two queries for a completed scan get the same record;
\* the fileInfo of a record never changes from insertion on, and is the one the
\* submission handler computed and handed to the worker.
C12_TerminalRecordFrozen ==
    /\ [][\A id \in DOMAIN store :
             /\ id \in DOMAIN store'
             /\ store'[id].file_info = store[id].file_info
             /\ store[id].status \in Terminal => store'[id] = store[id]]_vars
    /\ [](/\ response.kind = "result" => response.result = store[response.scan_id]
          /\ handler.pc \in {"up_spawn", "up_respond"} =>
                store[handler.scan_id].file_info = handler.file_info
          /\ \A id \in DOMAIN store :
                /\ store[id].file_info # NoFileInfo
                /\ worker[id].pc # "none" => store[id].file_info = worker[id].file_info)

\* a result query answers with the record of a scan that completed normally,
\* after the worker has ended
C12_Witness ==
    /\ response.kind = "result"
    /\ response.result.status = "unsafe"
    /\ worker[response.scan_id].pc = "done"
    /\ response.result.file_info.filename = "inject.exe"

\* the events of the first n log lines, one per line, in log order
EventsOf(logs, n) == [i \in 1..n |-> ProgressUpdate(logs[i])]

Streaming == handler.pc \in {"st_sleep", "st_locked", "st_respond"}

\* C13: a streaming read starts with nothing emitted and cursor 0; what it has
\* emitted is at all times one event per log line below its cursor, in log
\* order; it leaves the loop exactly when a poll saw a terminal status, and the
\* body it then sends holds one event for every line of the record's log,
\* which is the complete final log.
C13_StreamCoversLog ==
    /\ [](/\ Streaming =>
               LET result == store[handler.scan_id]
               IN  /\ handler.last_progress <= Len(result.logs)
                   /\ handler.sse_data = EventsOf(result.logs, handler.last_progress)
                   /\ (handler.pc = "st_respond" \/ handler.scan_complete) =>
                         /\ result.status \in Terminal
                         /\ handler.last_progress = Len(result.logs)
          /\ response.kind = "sse" =>
               LET result == store[response.scan_id]
               IN  /\ result.status \in Terminal
                   /\ response.sse_data = EventsOf(result.logs, Len(result.logs)))
    /\ [][/\ (~Streaming /\ Streaming') =>
               handler'.last_progress = 0 /\ handler'.sse_data = <<>>
          /\ (handler.pc = "st_locked" /\ handler' # handler) =>
               handler'.pc = IF store[handler.scan_id].status = "scanning"
                             THEN "st_sleep" ELSE "st_respond"
          /\ response'.kind = "sse" => handler.pc = "st_respond"]_vars

\* the stream of a scan of a PE file with two findings is about to be sent:
\* seven events, the last one the 100% entry
C13_Witness ==
    /\ handler.pc = "st_respond"
    /\ Len(handler.sse_data) = 7
    /\ handler.sse_data[7].progress = 100
    /\ store[handler.scan_id].status = "unsafe"

\* C14: once the client of a streaming read has disconnected, the polling loop
\* stops: the handler's next step leaves the loop, whatever the scan's
\* status, and does not go back to the sleep.
C14_DisconnectStopsLoop ==
    [][(/\ handler.pc = "st_locked"
        /\ ~handler.connected
        /\ store[handler.scan_id].status = "scanning"
        /\ handler' # handler) => handler'.pc # "st_sleep"]_vars

ErrArm == {"err", "err_remove", "done"}

\* C15: when the worker's read of the temp file fails, one step under the lock
\* sets the status to 'error' and appends exactly one log line, "Error reading
\* file: <e>", changing nothing else of the record; the record then has no
\* findings, zero stats and as its log the initial entry, the 10% entry and
\* that line (no 30/60/90/100 entry); the worker deletes the file once and
\* ends, without reading again.
C15_ReadFailure ==
    /\ [](\A id \in DOMAIN store :
            /\ worker[id].pc = "err" =>
                  store[id].status = "scanning" /\ Len(store[id].logs) = 2
            /\ store[id].status = "error" =>
                  /\ worker[id].pc \in {"err_remove", "done"}
                  /\ store[id].logs =
                        <<InitialLog, FormatProgress(10, "Reading file content..."),
                          <<"Error reading file: ", worker[id].error>>>>
                  /\ store[id].threats = <<>>
                  /\ store[id].stats = ZeroStats
                  /\ worker[id].pc = "err_remove" => lock = id /\ worker[id].removes = 0
                  /\ worker[id].pc = "done" =>
                        /\ lock # id
                        /\ worker[id].removes = 1
                        /\ id \notin DOMAIN disk)
    /\ [][\A id \in DOMAIN store :
             /\ (worker[id].pc = "err" /\ worker'[id].pc # "err") =>
                   /\ lock = Free /\ lock' = id
                   /\ store'[id] = [store[id] EXCEPT
                         !.status = "error",
                         !.logs = Append(@, <<"Error reading file: ", worker[id].error>>)]
             /\ worker[id].pc \in ErrArm => worker'[id].pc \in ErrArm]_vars

\* a worker whose file was deleted before its read has ended; the file that
\* could not be read for another reason has been deleted by the other worker
C15_Witness ==
    /\ worker[1].pc = "done"
    /\ store[1].status = "error"
    /\ worker[1].error = NotFoundError
    /\ worker[2].pc = "done"
    /\ store[2].status = "error"
    /\ worker[2].error = DeniedError

Verdicts == {"safe", "suspicious", "unsafe"}

\* the percents the stream reader parses out of the lines of a log
Percents(logs) == [i \in 1..Len(logs) |-> ExtractProgress(logs[i])]

\* C16: the log of a record with a verdict (safe, suspicious, unsafe) reads,
\* after the initial 0% entry, 10, 30, 60, 90, 100 in that order, with one
\* more entry (50%, "PE executable detected, analyzing...") between 30 and 60
\* exactly when the file starts with "MZ"; its percents never decrease and its
\* last entry is "[100%] Scan complete!".
C16_StageOrder ==
    \A id \in DOMAIN store :
        store[id].status \in Verdicts =>
            LET logs == store[id].logs
                magic == worker[id].content.mz
            IN  /\ Percents(logs) = <<0, 10, 30>> \o (IF magic THEN <<50>> ELSE <<>>)
                                       \o <<60, 90, 100>>
                /\ magic =>
                      logs[4] = FormatProgress(50, "PE executable detected, analyzing...")
                /\ \A i \in 1..(Len(logs) - 1) :
                      ExtractProgress(logs[i]) <= ExtractProgress(logs[i + 1])
                /\ logs[Len(logs)] = <<"[", "1", "0", "0", "%", "]", " ", "Scan complete!">>

\* one scan of a file with the magic and one of a file without have completed
C16_Witness ==
    /\ DOMAIN store = {1, 2}
    /\ store[1].status = "safe"
    /\ worker[1].content.mz
    /\ Len(store[1].logs) = 7
    /\ store[2].status = "suspicious"
    /\ ~worker[2].content.mz
    /\ Len(store[2].logs) = 6

\* C17: the streaming reader in its poll-interval sleep and a worker in its
\* settle delay do not hold the registry lock: whoever holds it is a thread
\* inside a critical section (the reader in its loop body, a worker in its Err
\* arm or its final insert), never a sleeping one.
C17_NoLockWhileSleeping ==
    /\ handler.pc = "st_sleep" => lock # MainThread
    /\ \A id \in Ids : worker[id].pc = "sleep" => lock # id
    /\ lock = MainThread => handler.pc = "st_locked"
    /\ \A id \in Ids : lock = id => worker[id].pc \in {"err_remove", "remove"}

\* the reader and one worker sleep while the other worker is in the registry
C17_Witness ==
    /\ handler.pc = "st_sleep"
    /\ handler.last_progress > 0
    /\ worker[1].pc = "sleep"
    /\ worker[2].pc = "remove"
    /\ lock = 2

\* C18: a record that is in the registry changes only in a step of the worker
\* spawned for its id, a step in which neither the handler nor another worker
\* moves; so no handler step (result query, streaming read, another upload)
\* and no other worker changes it.  A progress append for an id that is not in
\* the registry leaves the registry as it is.
C18_SingleMutator ==
    /\ [][\A X \in DOMAIN store :
             store'[X] # store[X] =>
                 /\ worker[X].pc # "none"
                 /\ worker'[X] # worker[X]
                 /\ handler' = handler
                 /\ response' = NoResponse
                 /\ \A Y \in Ids \ {X} :
                       /\ worker'[Y] = worker[Y]
                       /\ Y \in DOMAIN store => store'[Y] = store[Y]]_vars
    /\ [](\A id \in QueryIds \ DOMAIN store :
            send_progress(id, 10, "Reading file content...") = store)

\* worker 1 has appended its stage entries up to 60 while the record of scan
\* 2, whose worker has not run yet, is being streamed and is as inserted; id 0
\* is not in the registry
C18_Witness ==
    /\ worker[1].pc = "p90"
    /\ worker[2].pc = "p10"
    /\ store[2] = InitialResult(worker[2].file_info)
    /\ handler.pc = "st_sleep"
    /\ handler.scan_id = 2
    /\ handler.last_progress = 1

\* the same content without the two magic bytes in front
WithoutMagic(content) == [content EXCEPT !.mz = FALSE]

\* C19: the header stage adds a log line and nothing else: the step that logs
\* "PE executable detected" leaves the worker's findings as they are, and a
\* record with a verdict holds exactly the detector's findings for the content
\* (the same as for the content without the magic), their counts and the
\* verdict of those findings; two completed scans whose contents hold the same
\* text, one with the magic in front and one without, agree in findings, stats and status, and the one with the magic
\* has one log line more; a file with the magic and no detector finding ends
\* 'safe'.
C19_HeaderInformational ==
    /\ [](\A a \in DOMAIN store :
            store[a].status \in Verdicts =>
                LET content == worker[a].content
                    found == check_indicators(WithoutMagic(content))
                IN  /\ store[a].threats = found
                    /\ store[a].stats.threats_found = Len(found)
                    /\ (content.mz /\ found = <<>>) => store[a].status = "safe"
                    /\ \A b \in DOMAIN store :
                          (/\ store[b].status \in Verdicts
                           /\ content.mz
                           /\ ~worker[b].content.mz
                           /\ worker[b].content.words = content.words) =>
                              /\ store[a].threats = store[b].threats
                              /\ store[a].stats = store[b].stats
                              /\ store[a].status = store[b].status
                              /\ Len(store[a].logs) = Len(store[b].logs) + 1)
    /\ [][\A id \in Ids :
             (worker[id].pc = "p50" /\ worker'[id].pc # "p50") =>
                 /\ worker'[id].threats = worker[id].threats
                 /\ store'[id] = [store[id] EXCEPT !.logs = Append(@,
                       FormatProgress(50, "PE executable detected, analyzing..."))]]_vars

\* the same bytes were scanned with and without "MZ" in front: both are safe
C19_Witness ==
    /\ DOMAIN store = {1, 2}
    /\ worker[1].content.mz
    /\ ~worker[2].content.mz
    /\ worker[2].content.words = worker[1].content.words
    /\ store[1].status = "safe"
    /\ store[2].status = "safe"
    /\ Len(store[1].logs) = 7
    /\ Len(store[2].logs) = 6

Polling == handler.pc \in {"st_sleep", "st_locked"}

\* C20: while the handler is in the polling loop of a stream for a scan whose
\* status is 'scanning', it stays in that loop for that scan: no step sends a
\* response, inserts a record or starts another request; what changes besides
\* the loop's own cursor is the work of worker threads.
C20_StreamBlocksAcceptLoop ==
    [][(Polling /\ store[handler.scan_id].status = "scanning") =>
          /\ Polling'
          /\ handler'.scan_id = handler.scan_id
          /\ response' = NoResponse
          /\ DOMAIN store' = DOMAIN store
          /\ \A id \in Ids : worker[id].pc = "none" => worker'[id].pc = "none"
          /\ (handler' = handler \/ worker' = worker)]_vars

\* the stream of scan 1 is polling, has emitted four events and scan 1 is still
\* 'scanning', while the worker of scan 2 has completed
C20_Witness ==
    /\ handler.pc = "st_sleep"
    /\ handler.scan_id = 1
    /\ handler.last_progress = 4
    /\ store[1].status = "scanning"
    /\ worker[2].pc = "done"
    /\ store[2].status = "suspicious"

\* the positions at which a worker's next step takes the registry lock
LockSteps ==
    {"p10", "p30", "p50", "p60", "p90", "sleep", "logs", "insert", "err"}

\* the positions at which the main thread's next step takes the registry lock
\* and is not taken in one step with the request's arrival
MainLockSteps == {"up_insert", "st_sleep"}

\* the lock is free and no thread is at a step that takes it
NobodyWaits ==
    /\ lock = Free
    /\ handler.pc \notin MainLockSteps
    /\ \A id \in Ids : worker[id].pc \notin LockSteps

\* C21: the lock is taken only when it is free; the thread that holds it is at
\* a step that releases it and takes no lock (the reader at the end of its
\* loop body, a worker at the remove_file that ends its Err arm or its
\* closure), so no thread waits for a lock it holds, and the worker's final
\* insert finds the lock it took for the copy of the log released; a thread at
\* a lock step can take it whenever the lock is free; and no thread waits for
\* the lock forever and no lock is held forever: again and again the lock is
\* free with no thread waiting for it.
C21_LockDeadlockFree ==
    /\ [](/\ lock = MainThread => handler.pc = "st_locked" /\ ENABLED StatusUnlock
          /\ handler.pc = "up_insert" /\ lock = Free => ENABLED UploadInsert
          /\ ReaderCanLock <=> ENABLED <<StatusPoll>>_vars
          /\ \A id \in Ids :
                /\ lock = id => ENABLED (WReadFailedCleanup(id) \/ WCleanup(id))
                /\ (worker[id].pc \in LockSteps /\ lock = Free) => ENABLED Worker(id))
    /\ [][lock' # lock => (lock = Free \/ lock' = Free)]_vars
    /\ []<>NobodyWaits

\* a worker at its final insert and the reader, its sleep over, both wait for
\* the lock the other worker holds in its Err arm
C21_Witness ==
    /\ lock = 2
    /\ worker[2].pc = "err_remove"
    /\ worker[1].pc = "insert"
    /\ handler.pc = "st_sleep"
    /\ handler.last_progress > 0

=============================================================================
